---- MODULE Spec2Model ----
(***************************************************************************)
(* easyVoice backend: the segmented text-to-speech orchestration           *)
(* (generateTTS, buildSegmentList, the bounded task controller, the merge  *)
(* of per-segment files) and the subtitle reconstruction of EdgeTTS.       *)
(***************************************************************************)
EXTENDS Integers, Sequences, FiniteSets, TLC

(***************************************************************************)
(* Bounds of the model.                                                    *)
(***************************************************************************)
\* longest request text, in segments, of a request served alone
MaxSegs == 4
\* longest request text, in segments, when several requests follow each other
MaxSeqSegs == 2
\* number of generateTTS calls served one after the other
MaxCalls == 2
\* segments requested by the calls that follow each other, all together
MaxSeqTotal == 4
\* longest text handed to _saveSubFile, in characters
MaxText == 3
\* longest fragment of a cue, in characters
MaxFrag == 2
\* most cues of one subtitle file
MaxCues == 2
\* most subtitle files handed to mergeSubtitleFiles
MaxLists == 2
\* most audio and metadata frames the service sends in one session
MaxFrames == 2
\* milliseconds that pass while requests arrive
MaxNow == 2
\* most metadata events a session receives
MaxEvents == 2
\* largest options.retries given to safeRunWithRetry
MaxRetries == 3

(***************************************************************************)
(* Requests.  A text is the sequence of segments splitText cuts it into;   *)
(* a segment is one symbol.  The language franc detects is a function of   *)
(* the text: texts that begin with "a" are English, the others Chinese.    *)
(***************************************************************************)
SegTexts == {"a", "b"}

Voices == {"en-US", "zh-CN"}

TextsUpTo(n) == UNION {[1..k -> SegTexts] : k \in 1..n}

\* splitText: {length, segments}
splitText(text) == [length |-> Len(text), segments |-> text]

\* getLangConfig: franc(text), with 'cmn' renamed 'zh'
getLangConfig(text) == IF text[1] = "a" THEN "eng" ELSE "zh"

\* taskManager.generateTaskId({text, pitch, voice, rate, volume}): a stable
\* hash of the fields, modelled as the tuple itself (no collisions)
generateTaskId(text, voice) == <<text, voice>>

\* a validation that lets every voice pass
validateNothing(lang, voice) == TRUE

\* validateLangAndVoice: TRUE when it does not throw
validateLangAndVoice(lang, voice) == ~(lang # "eng" /\ voice = "en-US")

(***************************************************************************)
(* Files.  SegFile is <tmpDir of batch id>/<num>_splits.mp3, OutFile the   *)
(* location /<id>.mp3 a request returns.  id stands for generateId(), one  *)
(* per call; txt is the text the audio in the file speaks.                 *)
(***************************************************************************)
SegFile(id, num, txt) == [kind |-> "seg", id |-> id, num |-> num, txt |-> txt]

OutFile(id, txt) == [kind |-> "out", id |-> id, num |-> 0, txt |-> txt]

NoFile == [kind |-> "none", id |-> 0, num |-> 0, txt |-> <<>>]

\* Number(path.parse(f).name.split('_')[0]) is a number only for <n>_splits.mp3
IsNumbered(f) == f.kind = "seg"

VARIABLES
    calls,          \* generateTTS calls started so far; the id of the current one
    segsAsked,      \* segments of the texts of the calls so far
    pc,             \* where the current call is
    req,            \* parameters of the current call
    cache,          \* audioCacheInstance: key -> cached audio location
    jobs,           \* state of each segment task of the current batch
    results,        \* MapLimitController: outcome per task position
    fileList,       \* buildSegmentList.fileList
    handledLength,  \* buildSegmentList.handledLength
    progress,       \* the values passed to task.updateProgress, in hundredths of a percent
    merged,         \* the list concatDirAudio hands to ffmpeg
    srtMerged,      \* the segments whose cues concatDirSrt merged, in merge order
    outcome,        \* what the current call returned or threw
    sessions,       \* synthesis sessions opened by the current call
    llmCalls,       \* chat-completion requests sent by the current call
    keyWrites,      \* setAudio calls under the request key by the current call
    succeeded,      \* key -> location returned by an earlier fully successful call
    prev,           \* the call before the current one: its key and how it ended
    subText,        \* _saveSubFile: text
    subFile,        \* _saveSubFile: subFile, the cues
    subSaved,       \* _saveSubFile has rewritten the cues
    subtitleFiles,  \* concatDirSrt: the cue lists read, in merge order
    mergedJson,     \* concatDirSrt: what mergeSubtitleFiles returned
    mergeDone,      \* mergeSubtitleFiles has run
    ws,             \* EdgeTTS: the state of each ttsPromise call
    wsOpened,       \* WebSocket connections created so far
    ssmlOf,         \* connection -> the calls whose SSML request it carried
    saveSubtitles,  \* EdgeTTS.saveSubtitles
    now,            \* Date.now(), in milliseconds
    batches,        \* the generateTTS calls that run at the same time: state and id
    metadata,       \* the metadata events a session received, in arrival order
    subLines,       \* ttsPromise.subFile: the cues pushed for them
    retryPc,        \* safeRunWithRetry: where the call is
    retries,        \* safeRunWithRetry: options.retries after the default
    baseDelayMs,    \* safeRunWithRetry: options.baseDelayMs after the default
    onError,        \* safeRunWithRetry: the handler in use
    attempt,        \* safeRunWithRetry: the loop counter
    fnCalls,        \* the invocations of fn so far and how each settled
    onErrorCalls,   \* the calls of onError so far: <<err, attempt number>>
    sleeps,         \* the asyncSleep calls so far: after which attempt, how long
    retryResult     \* what safeRunWithRetry returned or threw

ttsVars == <<calls, segsAsked, pc, req, cache, jobs, results, fileList, handledLength, progress,
             merged, srtMerged, outcome, sessions, llmCalls, keyWrites, succeeded, prev>>

subVars == <<subText, subFile, subSaved>>

mergeVars == <<subtitleFiles, mergedJson, mergeDone>>

wsVars == <<ws, wsOpened, ssmlOf, saveSubtitles>>

idVars == <<now, batches>>

metaVars == <<metadata, subLines>>

retryVars == <<retryPc, retries, baseDelayMs, onError, attempt, fnCalls, onErrorCalls,
               sleeps, retryResult>>

vars == <<ttsVars, subVars, mergeVars, wsVars, idVars, metaVars, retryVars>>

(***************************************************************************)
(* Helpers.                                                                *)
(***************************************************************************)
Range(s) == {s[i] : i \in 1..Len(s)}

Count(js, st) == Cardinality({i \in 1..Len(js) : js[i] = st})

Active(js) == {i \in 1..Len(js) : js[i] \in {"getAudio", "synth", "setAudio"}}

Terminal(js) == {i \in 1..Len(js) : js[i] \in {"ok", "failed"}}

Min(S) == CHOOSE x \in S : \A y \in S : x <= y

\* the rearrangements of a list
Perms(s) ==
    { [i \in 1..Len(s) |-> s[p[i]]] :
        p \in {q \in [1..Len(s) -> 1..Len(s)] : \A i, j \in 1..Len(s) : q[i] = q[j] => i = j} }

NoOutcome == [kind |-> "none", audio |-> NoFile, partial |-> FALSE, err |-> "none"]

\* the call threw; why names the throw site: "validation", "undefined", "llm",
\* "synthesis", "nomp3", "concat", "merge" or "cache"
Error(why) == [kind |-> "error", audio |-> NoFile, partial |-> FALSE, err |-> why]

Pending == [success |-> FALSE, audio |-> NoFile, set |-> FALSE]

Fulfilled(f) == [success |-> TRUE, audio |-> f, set |-> TRUE]

Rejected == [success |-> FALSE, audio |-> NoFile, set |-> TRUE]

(***************************************************************************)
(* MapLimitController(tasks, limit).run()                                  *)
(***************************************************************************)
\* a ceiling one above the one the code passes
limitOneMore == 3 + 1

\* the concurrency ceiling buildSegmentList passes to runConcurrentTasks
limit == 3

\* admission that stops at the first failed task
AdmitUntilFailure(js) ==
    IF /\ Cardinality({i \in 1..Len(js) : js[i] \in {"getAudio", "synth", "setAudio"}}) < 3
       /\ \E i \in 1..Len(js) : js[i] = "pending"
       /\ ~\E i \in 1..Len(js) : js[i] = "failed"
    THEN [js EXCEPT ![CHOOSE i \in 1..Len(js) :
                        js[i] = "pending" /\ \A k \in 1..(i - 1) : js[k] # "pending"] = "getAudio"]
    ELSE js

\* admission in batches: the next tasks start when no task is running
AdmitWhenAllDone(js) ==
    IF Active(js) = {} /\ Count(js, "pending") > 0
    THEN LET first == Min({i \in 1..Len(js) : js[i] = "pending"})
         IN  [i \in 1..Len(js) |->
                IF js[i] = "pending" /\ i < first + 3 THEN "getAudio" ELSE js[i]]
    ELSE js

\* a free slot admits the next task that has not started, in input order;
\* an admitted task runs up to its first await, the cache read
AdmitNext(js) ==
    IF Cardinality(Active(js)) < limit /\ Count(js, "pending") > 0
    THEN [js EXCEPT ![Min({i \in 1..Len(js) : js[i] = "pending"})] = "getAudio"]
    ELSE js

\* run(): the first `limit` tasks start at once
StartTasks(n) == [i \in 1..n |-> IF i <= limit THEN "getAudio" ELSE "pending"]

\* outcomes stored in completion order, in the first free position
RecordInCompletionOrder(res, i, o) ==
    [res EXCEPT ![CHOOSE k \in 1..Len(res) :
                    ~res[k].set /\ \A m \in 1..(k - 1) : res[m].set] = o]

\* the outcome of task i is stored at position i
RecordOutcome(res, i, o) == [res EXCEPT ![i] = o]

\* task i settled in state st with outcome o: record it, free its slot, admit
Settle(i, st, o) ==
    /\ jobs' = AdmitNext([jobs EXCEPT ![i] = st])
    /\ results' = RecordOutcome(results, i, o)

(***************************************************************************)
(* audioCacheInstance                                                      *)
(***************************************************************************)
getAudio(c, key) == IF key \in DOMAIN c THEN c[key] ELSE NoFile

setAudio(c, key, f) == [k \in DOMAIN c \cup {key} |-> IF k = key THEN f ELSE c[k]]

(***************************************************************************)
(* concatDirAudio / sortAudioDir                                           *)
(***************************************************************************)
\* insertion of f into a list sorted by num, after the entries that are not greater
InsertByNum(s, f) ==
    LET k == Cardinality({i \in 1..Len(s) : s[i].num <= f.num})
    IN  SubSeq(s, 1, k) \o <<f>> \o SubSeq(s, k + 1, Len(s))

RECURSIVE StableSortByNum(_)
StableSortByNum(s) ==
    IF s = <<>> THEN <<>>
    ELSE InsertByNum(StableSortByNum(SubSeq(s, 1, Len(s) - 1)), s[Len(s)])

\* sortAudioDir: every entry ends in .mp3, so the filter keeps them all; the
\* comparator subtracts the leading numbers of the file names.  When a name
\* has no leading number the comparator yields NaN and the order Array.sort
\* produces is implementation-defined.
sortAudioDir(fl) ==
    IF \A i \in 1..Len(fl) : IsNumbered(fl[i])
    THEN {StableSortByNum(fl)}
    ELSE Perms(fl)

\* partial only when every task failed
IsPartialWhenAllFailed(res) == \A i \in 1..Len(res) : ~res[i].success

\* partial when the first task failed
IsPartialWhenFirstFailed(res) == ~res[1].success

\* buildSegmentList: partial
IsPartial(res) == \E i \in 1..Len(res) : ~res[i].success

\* every result is cached
CacheAlways(result) == TRUE

\* no result is cached
CacheNever(result) == FALSE

\* generateTTS: the result is cached unless it is partial
ShouldCache(result) == ~result.partial

(***************************************************************************)
(* Initial state: no call yet, empty cache.                                *)
(***************************************************************************)
NoReq == [text |-> <<>>, voice |-> "zh-CN", useLLM |-> FALSE]

\* no call before the first
NoPrev == [req |-> NoReq, partial |-> FALSE, failed |-> {}]

\* no call yet, empty cache
InitTts ==
    /\ calls = 0
    /\ segsAsked = 0
    /\ pc = "idle"
    /\ req = NoReq
    /\ cache = <<>>
    /\ jobs = <<>>
    /\ results = <<>>
    /\ fileList = <<>>
    /\ handledLength = 0
    /\ progress = <<>>
    /\ merged = <<>>
    /\ srtMerged = <<>>
    /\ outcome = NoOutcome
    /\ sessions = 0
    /\ llmCalls = 0
    /\ keyWrites = 0
    /\ succeeded = <<>>
    /\ prev = NoPrev

\* no subtitle file to rewrite
NoSub ==
    /\ subText = <<>>
    /\ subFile = <<>>
    /\ subSaved = FALSE

\* no cue lists to merge
NoMerge ==
    /\ subtitleFiles = <<>>
    /\ mergedJson = <<>>
    /\ mergeDone = FALSE

\* the synthesis calls that can run at the same time
WsJobs == {1, 2}

\* a ttsPromise call that has not started
NoWs ==
    [st |-> "idle", conn |-> "pending", tts |-> "pending", sock |-> "none", sid |-> 0,
     connTimer |-> FALSE, turnTimer |-> FALSE, errored |-> FALSE, turnEnd |-> FALSE,
     bad |-> FALSE, frames |-> 0, recv |-> <<>>, file |-> <<>>, fileEnded |-> FALSE,
     subFile |-> <<>>, parsed |-> <<>>, saved |-> <<>>, wasSaved |-> FALSE,
     sent |-> <<>>]

\* no synthesis call yet
NoSession ==
    /\ ws = [j \in WsJobs |-> NoWs]
    /\ wsOpened = 0
    /\ ssmlOf = <<>>
    /\ saveSubtitles = FALSE

\* the requests that can be in progress at the same time
IdBatches == {1, 2}

\* a request that has not arrived
NoBatch == [st |-> "idle", id |-> <<>>]

\* no request in progress
NoIds ==
    /\ now = 0
    /\ batches = [b \in IdBatches |-> NoBatch]

\* no metadata event yet
NoMeta ==
    /\ metadata = <<>>
    /\ subLines = <<>>

NoResult == [kind |-> "none", val |-> ""]

\* safeRunWithRetry has not been called
NoRetry ==
    /\ retryPc = "idle"
    /\ retries = 0
    /\ baseDelayMs = 0
    /\ onError = ""
    /\ attempt = 0
    /\ fnCalls = <<>>
    /\ onErrorCalls = <<>>
    /\ sleeps = <<>>
    /\ retryResult = NoResult

Init == InitTts /\ NoSub /\ NoMerge /\ NoSession /\ NoIds /\ NoMeta /\ NoRetry

ReqKey == generateTaskId(req.text, req.voice)

\* the calls that returned a complete artifact
Remember ==
    IF outcome.kind \in {"hit", "ok"} /\ ~outcome.partial
    THEN setAudio(succeeded, ReqKey, outcome.audio)
    ELSE succeeded

(***************************************************************************)
(* generateTTS, from the call to its first remote operation.               *)
(***************************************************************************)
Request(text, voice, useLLM) ==
    /\ pc = "idle"
    /\ calls' = calls + 1
    /\ segsAsked' = segsAsked + Len(text)
    /\ req' = [text |-> text, voice |-> voice, useLLM |-> useLLM]
    /\ UNCHANGED <<succeeded, prev>>
    /\ jobs' = IF getAudio(cache, generateTaskId(text, voice)) = NoFile
                  /\ validateLangAndVoice(getLangConfig(text), voice)
                  /\ ~useLLM /\ splitText(text).length > 1
               THEN StartTasks(Len(text)) ELSE <<>>
    /\ results' = [i \in 1..Len(jobs') |-> Pending]
    /\ fileList' = <<>>
    /\ handledLength' = 0
    /\ progress' = <<>>
    /\ merged' = <<>>
    /\ srtMerged' = <<>>
    /\ keyWrites' = 0
    /\ UNCHANGED cache
    /\ IF getAudio(cache, generateTaskId(text, voice)) # NoFile
       THEN \* cache hit: return cache
            /\ pc' = "done"
            /\ outcome' = [kind |-> "hit",
                           audio |-> getAudio(cache, generateTaskId(text, voice)),
                           partial |-> FALSE, err |-> "none"]
            /\ sessions' = 0 /\ llmCalls' = 0
       ELSE IF ~validateLangAndVoice(getLangConfig(text), voice)
       THEN /\ pc' = "done"
            /\ outcome' = Error("validation")
            /\ sessions' = 0 /\ llmCalls' = 0
       ELSE IF useLLM
       THEN IF splitText(text).length <= 1
            THEN \* generateWithLLM: await fetchLLMSegment(prompt)
                 /\ pc' = "llm"
                 /\ outcome' = NoOutcome
                 /\ sessions' = 0 /\ llmCalls' = 1
            ELSE \* generateWithLLM returns undefined; validateTTSResult throws
                 /\ pc' = "done"
                 /\ outcome' = Error("undefined")
                 /\ sessions' = 0 /\ llmCalls' = 0
       ELSE IF splitText(text).length <= 1
       THEN \* buildSegment: await generateSingleVoice
            /\ pc' = "single"
            /\ outcome' = NoOutcome
            /\ sessions' = 1 /\ llmCalls' = 0
       ELSE \* buildSegmentList: await runConcurrentTasks(tasks, 3)
            /\ pc' = "batch"
            /\ outcome' = NoOutcome
            /\ sessions' = 0 /\ llmCalls' = 0

(***************************************************************************)
(* The task of segment i (buildSegmentList, tasks[i-1]).                   *)
(***************************************************************************)
\* the key of the whole request, used for the segment as well
SegKeyOfRequest(i) == generateTaskId(req.text, req.voice)

SegKey(i) == generateTaskId(<<req.text[i]>>, req.voice)

\* Number((num / den).toFixed(2)), counted in hundredths: the quotient rounded
\* to the nearest hundredth, a half upwards
toFixed(num, den) == (2 * 100 * num + den) \div (2 * den)

\* the share of the tasks still to be synthesized
getRemaining(handled, length) == toFixed((length - handled) * 100, length)

\* getProgress(): Number(((handledLength / length) * 100).toFixed(2))
getProgress(handled, length) == toFixed(handled * 100, length)

\* the cache read returns: a hit ends the task with the cached entry, a miss
\* opens a synthesis session for the segment
TaskCacheRead(i) ==
    /\ pc = "batch"
    /\ jobs[i] = "getAudio"
    /\ IF getAudio(cache, SegKey(i)) # NoFile
       THEN /\ fileList' = Append(fileList, getAudio(cache, SegKey(i)))
            /\ Settle(i, "ok", Fulfilled(getAudio(cache, SegKey(i))))
            /\ UNCHANGED sessions
       ELSE /\ jobs' = [jobs EXCEPT ![i] = "synth"]
            /\ sessions' = sessions + 1
            /\ UNCHANGED <<fileList, results>>
    /\ UNCHANGED <<calls, segsAsked, pc, req, cache, handledLength, progress, merged, srtMerged, outcome, llmCalls,
                   keyWrites, succeeded, prev>>

\* generateSingleVoice resolves: push the file, count it, write the cache
TaskSynthOk(i) ==
    /\ pc = "batch"
    /\ jobs[i] = "synth"
    /\ fileList' = Append(fileList, SegFile(calls, i, <<req.text[i]>>))
    /\ handledLength' = handledLength + 1
    /\ progress' = Append(progress, getProgress(handledLength + 1, Len(jobs)))
    /\ jobs' = [jobs EXCEPT ![i] = "setAudio"]
    /\ UNCHANGED <<calls, segsAsked, pc, req, cache, results, merged, srtMerged, outcome, sessions, llmCalls,
                   keyWrites, succeeded, prev>>

\* generateSingleVoice rejects: the task rejects
TaskSynthFail(i) ==
    /\ pc = "batch"
    /\ jobs[i] = "synth"
    /\ Settle(i, "failed", Rejected)
    /\ UNCHANGED <<calls, segsAsked, pc, req, cache, fileList, handledLength, progress, merged, srtMerged, outcome,
                   sessions, llmCalls, keyWrites, succeeded, prev>>

\* the segment's cache write resolves: the task returns result
TaskCacheWriteOk(i) ==
    /\ pc = "batch"
    /\ jobs[i] = "setAudio"
    /\ cache' = setAudio(cache, SegKey(i), SegFile(calls, i, <<req.text[i]>>))
    /\ Settle(i, "ok", Fulfilled(SegFile(calls, i, <<req.text[i]>>)))
    /\ UNCHANGED <<calls, segsAsked, pc, req, fileList, handledLength, progress, merged, srtMerged, outcome, sessions,
                   llmCalls, keyWrites, succeeded, prev>>

\* the segment's cache write rejects: the task rejects
TaskCacheWriteFail(i) ==
    /\ pc = "batch"
    /\ jobs[i] = "setAudio"
    /\ Settle(i, "failed", Rejected)
    /\ UNCHANGED <<calls, segsAsked, pc, req, cache, fileList, handledLength, progress, merged, srtMerged, outcome,
                   sessions, llmCalls, keyWrites, succeeded, prev>>

(***************************************************************************)
(* buildSegmentList after the controller resolved, and generateTTS after   *)
(* it: partial, concatDirAudio, concatDirSrt, validateTTSResult.           *)
(***************************************************************************)
BatchResult ==
    [kind |-> "ok", audio |-> OutFile(calls, req.text), partial |-> IsPartial(results), err |-> "none"]

\* generateTTS, lines 88-96: the result is returned; unless partial it is cached first
Finish(result) ==
    /\ pc' = IF ShouldCache(result) THEN "setAudio" ELSE "done"
    /\ outcome' = result

\* <file>.json exists: generateSingleVoice writes the cues of a segment next
\* to its <n>_splits.mp3; a returned location (STATIC_DOMAIN/<id>.mp3) is not
\* the path of the file (AUDIO_DIR/<id>.mp3), so nothing is found there
HasCueFile(f) == IsNumbered(f)

\* readJson: the cues in the file, named by the text they cover; a read that
\* fails is logged and answered with {}
readJson(f) == IF HasCueFile(f) THEN f.txt ELSE <<>>

\* what the subtitle files of a list cover, one after the other
RECURSIVE ReadAll(_)
ReadAll(files) == IF files = <<>> THEN <<>> ELSE readJson(files[1]) \o ReadAll(Tail(files))

\* mp3Files is the order sortAudioDir gives; concatDirSrt sorts the same list
\* with the same comparator.  mergeOk: mergeSubtitleFiles returns although one
\* of the subtitle files is {} (it may as well throw).
Merge ==
    /\ pc = "batch"
    /\ Terminal(jobs) = 1..Len(jobs)
    /\ \E mp3Files \in sortAudioDir(fileList), ffmpegOk \in BOOLEAN, mergeOk \in BOOLEAN :
        /\ merged' = mp3Files
        /\ IF mp3Files = <<>>
           THEN \* 'No MP3 files found in input directory'
                /\ pc' = "done" /\ outcome' = Error("nomp3") /\ srtMerged' = <<>>
                /\ UNCHANGED progress
           ELSE IF ~ffmpegOk
           THEN \* 'Concat failed'
                /\ pc' = "done" /\ outcome' = Error("concat") /\ srtMerged' = <<>>
                /\ UNCHANGED progress
           ELSE IF (\E k \in 1..Len(mp3Files) : ~HasCueFile(mp3Files[k])) /\ ~mergeOk
           THEN /\ pc' = "done" /\ outcome' = Error("merge") /\ srtMerged' = <<>>
                /\ UNCHANGED progress
           ELSE \* task?.updateProgress?.(task.id, 100)
                /\ Finish(BatchResult) /\ srtMerged' = ReadAll(mp3Files)
                /\ progress' = Append(progress, toFixed(100, 1))
    /\ UNCHANGED <<calls, segsAsked, req, cache, jobs, results, fileList, handledLength,
                   sessions, llmCalls, keyWrites, succeeded, prev>>

(***************************************************************************)
(* A single-segment request: buildSegment.                                 *)
(***************************************************************************)
SingleResult == [kind |-> "ok", audio |-> OutFile(calls, req.text), partial |-> FALSE, err |-> "none"]

\* a failed synthesis answered with a result marked partial
SingleDoneAsPartial(ok) ==
    /\ pc = "single"
    /\ Finish([SingleResult EXCEPT !.partial = ~ok])
    /\ UNCHANGED <<calls, segsAsked, req, cache, jobs, results, fileList, handledLength, progress,
                   merged, srtMerged, sessions, llmCalls, keyWrites, succeeded, prev>>

\* generateSingleVoice and generateSrt resolve, or one of them rejects
SingleDone(ok) ==
    /\ pc = "single"
    /\ IF ok THEN Finish(SingleResult) ELSE pc' = "done" /\ outcome' = Error("synthesis")
    /\ UNCHANGED <<calls, segsAsked, req, cache, jobs, results, fileList, handledLength, progress,
                   merged, srtMerged, sessions, llmCalls, keyWrites, succeeded, prev>>

(***************************************************************************)
(* A single-segment request with useLLM: generateWithLLM.                  *)
(***************************************************************************)
\* the replies of the model: result is an array ("array"), the reply has no
\* result ("absent"), result is null, 0, "" or false ("falsy"), result is
\* another value that is no array ("other"), or the request or the parse of
\* the reply failed ("throw")
LLMReplies == {"array", "absent", "falsy", "other", "throw"}

\* llmResponse?.result || []: what Array.isArray is asked about is an array
IsArrayAfterDefault(reply) == reply \in {"array", "absent", "falsy"}

\* fetchLLMSegment returns
LLMReply(reply) ==
    /\ pc = "llm"
    /\ IF IsArrayAfterDefault(reply)
       THEN pc' = "runEdgeTTS" /\ sessions' = sessions + 1 /\ UNCHANGED outcome
       ELSE pc' = "done" /\ outcome' = Error("llm") /\ UNCHANGED sessions
    /\ UNCHANGED <<calls, segsAsked, req, cache, jobs, results, fileList, handledLength, progress,
                   merged, srtMerged, llmCalls, keyWrites, succeeded, prev>>

\* runEdgeTTS resolves or rejects
LLMSynthDone(ok) ==
    /\ pc = "runEdgeTTS"
    /\ IF ok THEN Finish(SingleResult) ELSE pc' = "done" /\ outcome' = Error("synthesis")
    /\ UNCHANGED <<calls, segsAsked, req, cache, jobs, results, fileList, handledLength, progress,
                   merged, srtMerged, sessions, llmCalls, keyWrites, succeeded, prev>>

(***************************************************************************)
(* generateTTS: await audioCacheInstance.setAudio(cacheKey, ...)           *)
(***************************************************************************)
CacheWriteDone(ok) ==
    /\ pc = "setAudio"
    /\ keyWrites' = keyWrites + 1
    /\ pc' = "done"
    /\ IF ok
       THEN cache' = setAudio(cache, ReqKey, outcome.audio) /\ UNCHANGED outcome
       ELSE outcome' = Error("cache") /\ UNCHANGED cache
    /\ UNCHANGED <<calls, segsAsked, req, jobs, results, fileList, handledLength, progress, merged, srtMerged,
                   sessions, llmCalls, succeeded, prev>>

(***************************************************************************)
(* The caller has the answer; the call's locals are gone.                  *)
(***************************************************************************)
Return ==
    /\ pc = "done"
    /\ pc' = "idle"
    /\ succeeded' = Remember
    /\ req' = NoReq
    /\ jobs' = <<>>
    /\ results' = <<>>
    /\ fileList' = <<>>
    /\ handledLength' = 0
    /\ progress' = <<>>
    /\ merged' = <<>>
    /\ srtMerged' = <<>>
    /\ outcome' = NoOutcome
    /\ sessions' = 0
    /\ llmCalls' = 0
    /\ keyWrites' = 0
    /\ prev' = [req |-> req,
                partial |-> outcome.kind = "ok" /\ outcome.partial,
                failed |-> IF outcome.kind = "ok" /\ outcome.partial
                           THEN {i \in 1..Len(jobs) : jobs[i] = "failed"} ELSE {}]
    /\ UNCHANGED <<calls, segsAsked, cache>>

(***************************************************************************)
(* Specifications.                                                         *)
(***************************************************************************)
Step ==
    \/ \E i \in 1..Len(jobs) : TaskCacheRead(i)
    \/ \E i \in 1..Len(jobs) : TaskSynthOk(i)
    \/ \E i \in 1..Len(jobs) : TaskSynthFail(i)
    \/ \E i \in 1..Len(jobs) : TaskCacheWriteOk(i)
    \/ \E i \in 1..Len(jobs) : TaskCacheWriteFail(i)
    \/ Merge
    \/ \E ok \in BOOLEAN : SingleDone(ok)
    \/ \E reply \in LLMReplies : LLMReply(reply)
    \/ \E ok \in BOOLEAN : LLMSynthDone(ok)
    \/ \E ok \in BOOLEAN : CacheWriteDone(ok)
    \/ Return

\* several requests, one after the other, over one cache
Call ==
    /\ calls < MaxCalls
    /\ \E text \in TextsUpTo(MaxSeqSegs), voice \in Voices, useLLM \in BOOLEAN :
          /\ segsAsked + Len(text) <= MaxSeqTotal
          /\ Request(text, voice, useLLM)

Next == (Call \/ Step) /\ UNCHANGED <<subVars, mergeVars, wsVars, idVars, metaVars, retryVars>>

Spec == Init /\ [][Next]_vars

\* generateTTS: `await audioCacheInstance.getAudio(cacheKey)` rejects
RequestCacheReadFails(text, voice, useLLM) ==
    /\ pc = "idle"
    /\ calls' = calls + 1
    /\ segsAsked' = segsAsked + Len(text)
    /\ req' = [text |-> text, voice |-> voice, useLLM |-> useLLM]
    /\ pc' = "done"
    /\ outcome' = Error("cache")
    /\ jobs' = <<>>
    /\ results' = <<>>
    /\ fileList' = <<>>
    /\ handledLength' = 0
    /\ progress' = <<>>
    /\ merged' = <<>>
    /\ srtMerged' = <<>>
    /\ sessions' = 0
    /\ llmCalls' = 0
    /\ keyWrites' = 0
    /\ UNCHANGED <<cache, succeeded, prev>>

\* the task of segment i: `await audioCacheInstance.getAudio(cacheKey)` rejects
TaskCacheReadFails(i) ==
    /\ pc = "batch"
    /\ jobs[i] = "getAudio"
    /\ Settle(i, "failed", Rejected)
    /\ UNCHANGED <<calls, segsAsked, pc, req, cache, fileList, handledLength, progress, merged, srtMerged,
                   outcome, sessions, llmCalls, keyWrites, succeeded, prev>>

\* one request over a cache whose reads can fail as well as its writes
CallFault ==
    /\ calls < 1
    /\ \E text \in TextsUpTo(MaxSeqSegs), useLLM \in BOOLEAN :
          \/ Request(text, "zh-CN", useLLM)
          \/ RequestCacheReadFails(text, "zh-CN", useLLM)

NextFault ==
    /\ \/ CallFault
       \/ Step
       \/ \E i \in 1..Len(jobs) : TaskCacheReadFails(i)
    /\ UNCHANGED <<subVars, mergeVars, wsVars, idVars, metaVars, retryVars>>

SpecFault == Init /\ [][NextFault]_vars

\* one request of up to MaxSegs segments, for a voice that suits every text;
\* for such a voice the two segment texts are interchangeable, so the first
\* segment is taken to be "a"
CallOne ==
    /\ calls < 1
    /\ \E text \in TextsUpTo(MaxSegs), useLLM \in BOOLEAN :
          /\ text[1] = "a"
          /\ Request(text, "zh-CN", useLLM)

NextOne == (CallOne \/ Step) /\ UNCHANGED <<subVars, mergeVars, wsVars, idVars, metaVars, retryVars>>

SpecOne == Init /\ [][NextOne]_vars

(***************************************************************************)
(* EdgeTTS._saveSubFile(subFile, text, audioPath).  A text and a fragment  *)
(* are sequences of characters (UTF-16 units, as split('') and part[k]     *)
(* see them).                                                              *)
(***************************************************************************)
Chars == {"x", "y"}

\* subFile?.[index + 1]?.part?.[0]: <<>> stands for undefined
NextFirst(cues, k) ==
    IF k < Len(cues) /\ cues[k + 1].part # <<>> THEN <<cues[k + 1].part[1]>> ELSE <<>>

\* the for loop over sci for one cue: the rebuilt part and, when the loop
\* left through break, the index it stopped at (0 when it ran to the end)
RECURSIVE ScanCue(_, _, _, _, _, _)
ScanCue(subChars, part, nextFirst, sci, stepIndex, fullPart) ==
    IF sci > Len(subChars) THEN [part |-> fullPart, brk |-> 0]
    ELSE IF stepIndex <= Len(part) /\ subChars[sci] = part[stepIndex]
    THEN ScanCue(subChars, part, nextFirst, sci + 1, stepIndex + 1,
                 Append(fullPart, subChars[sci]))
    ELSE IF nextFirst = <<subChars[sci]>>
    THEN [part |-> fullPart, brk |-> sci]
    ELSE ScanCue(subChars, part, nextFirst, sci + 1, stepIndex,
                 Append(fullPart, subChars[sci]))

\* a forEach whose next cue starts after the character the scan stopped at
RECURSIVE ForEachCueSkipping(_, _, _, _)
ForEachCueSkipping(cues, subChars, k, subCharIndex) ==
    IF k > Len(cues) THEN <<>>
    ELSE LET r == ScanCue(subChars, cues[k].part, NextFirst(cues, k), subCharIndex, 1, <<>>)
         IN  <<[cues[k] EXCEPT !.part = r.part]>>
               \o ForEachCueSkipping(cues, subChars, k + 1,
                                     IF r.brk = 0 THEN subCharIndex ELSE r.brk + 1)

\* subFile.forEach from cue k on; subCharIndex moves only on break
RECURSIVE ForEachCue(_, _, _, _)
ForEachCue(cues, subChars, k, subCharIndex) ==
    IF k > Len(cues) THEN <<>>
    ELSE LET r == ScanCue(subChars, cues[k].part, NextFirst(cues, k), subCharIndex, 1, <<>>)
         IN  <<[cues[k] EXCEPT !.part = r.part]>>
               \o ForEachCue(cues, subChars, k + 1,
                             IF r.brk = 0 THEN subCharIndex ELSE r.brk)

\* a writer that leaves out the cues whose rebuilt part is empty
saveSubFileDroppingEmpty(cues, text) ==
    SelectSeq(ForEachCue(cues, text, 1, 1), LAMBDA cue : cue.part # <<>>)

\* the cues written to <audioPath>.json
saveSubFile(cues, text) == ForEachCue(cues, text, 1, 1)

Frags == UNION {[1..k -> Chars] : k \in 0..MaxFrag}

SubTexts == UNION {[1..k -> Chars] : k \in 0..MaxText}

\* cue lists of n cues; cue k is reported from k-1 to k
CueLists(n) == {[k \in 1..n |-> [part |-> f[k], start |-> k - 1, end |-> k]] : f \in [1..n -> Frags]}

InitSub ==
    /\ InitTts
    /\ NoMerge
    /\ NoSession
    /\ NoIds
    /\ NoMeta
    /\ NoRetry
    /\ subText \in SubTexts
    /\ subFile \in UNION {CueLists(n) : n \in 0..MaxCues}
    /\ subSaved = FALSE

\* ttsPromise on turn.end, with saveSubtitles
SaveSubFile ==
    /\ ~subSaved
    /\ subFile' = saveSubFile(subFile, subText)
    /\ subSaved' = TRUE
    /\ UNCHANGED subText

NextSub == SaveSubFile /\ UNCHANGED <<ttsVars, mergeVars, wsVars, idVars, metaVars, retryVars>>

SpecSub == InitSub /\ [][NextSub]_vars

(***************************************************************************)
(* concatDirSrt: mergeSubtitleFiles(subtitleFiles).  The cue lists are     *)
(* merged in the order given, each shifted by the base offset, which then  *)
(* advances by the list's own final cue end time.                          *)
(***************************************************************************)
\* the end time of the last cue of a list; a list without cues adds nothing
FinalEnd(list) == IF list = <<>> THEN 0 ELSE list[Len(list)].end

\* a base offset that is never advanced
KeepOffset(baseOffsetMs, list) == baseOffsetMs

\* after each list, baseOffsetMs advances by the list's final cue end time
AdvanceOffset(baseOffsetMs, list) == baseOffsetMs + FinalEnd(list)

\* only the start of a cue is moved by the base offset
ShiftStarts(list, baseOffsetMs) ==
    [k \in 1..Len(list) |-> [list[k] EXCEPT !.start = @ + baseOffsetMs]]

\* emit cue.start + baseOffsetMs / cue.end + baseOffsetMs
ShiftCues(list, baseOffsetMs) ==
    [k \in 1..Len(list) |->
        [list[k] EXCEPT !.start = @ + baseOffsetMs, !.end = @ + baseOffsetMs]]

RECURSIVE MergeFrom(_, _)
MergeFrom(files, baseOffsetMs) ==
    IF files = <<>> THEN <<>>
    ELSE ShiftCues(files[1], baseOffsetMs)
           \o MergeFrom(Tail(files), AdvanceOffset(baseOffsetMs, files[1]))

mergeSubtitleFiles(files) == MergeFrom(files, 0)

\* cue times of a segment, in milliseconds
Times == {0, 1}

\* the cues ttsPromise can record: Duration is not negative, so start <= end
MergeCues == {c \in [part : {<<>>}, start : Times, end : Times] : c.start <= c.end}

\* the cue lists of a segment, in any order of their cues
MergeLists == UNION {[1..k -> MergeCues] : k \in 0..MaxCues}

InitMerge ==
    /\ InitTts
    /\ NoSub
    /\ NoSession
    /\ NoIds
    /\ NoMeta
    /\ NoRetry
    /\ subtitleFiles \in UNION {[1..n -> MergeLists] : n \in 0..MaxLists}
    /\ mergedJson = <<>>
    /\ mergeDone = FALSE

\* concatDirSrt, line 345
MergeSubtitles ==
    /\ ~mergeDone
    /\ mergedJson' = mergeSubtitleFiles(subtitleFiles)
    /\ mergeDone' = TRUE
    /\ UNCHANGED subtitleFiles

NextMerge == MergeSubtitles /\ UNCHANGED <<ttsVars, subVars, wsVars, idVars, metaVars, retryVars>>

SpecMerge == InitMerge /\ [][NextMerge]_vars

(***************************************************************************)
(* EdgeTTS.ttsPromise(text, audioPath) and _connectWebSocket().  Audio     *)
(* chunks and metadata events are named by the number of the frame that    *)
(* carried them.                                                           *)
(***************************************************************************)
\* resolve() or reject() of a promise that every later call leaves alone
settleLast(promise, to) == to

\* resolve() or reject(): only the first call settles the promise
settlePromise(promise, to) == IF promise = "pending" THEN to ELSE promise

\* a close code check that takes 1006 for a normal closure too
IsAbnormalButLost(code) == code # 1000 /\ code # 1006

\* code !== 1000
IsAbnormal(code) == code # 1000

\* a connection shared by the calls that follow the first
pooledWebSocket(opened) == IF opened = 0 THEN 1 ELSE opened

\* new WebSocket(...): every call of _connectWebSocket creates a connection
newWebSocket(opened) == opened + 1

\* wsConnect.close() / _wsConnect.close()
closeSocket(sock) == IF sock \in {"connecting", "open"} THEN "closing" ELSE sock

\* _wsConnect.send(ssml) on connection sid, by call j
sendSSML(carried, sid, j) ==
    [k \in DOMAIN carried \cup {sid} |->
        IF k = sid THEN (IF sid \in DOMAIN carried THEN carried[sid] ELSE <<>>) \o <<j>>
        ELSE carried[k]]

\* a send that puts the frame on the wire twice
sendTwice(sent, frame) == sent \o <<frame, frame>>

\* wsConnect.send(frame) / _wsConnect.send(frame): the frames the client has
\* sent on the connection, in order
sendFrame(sent, frame) == Append(sent, frame)

\* `await this._connectWebSocket()` threw: ttsPromise rejects
AwaitConnect(w) ==
    IF w.st = "connecting" /\ w.conn = "rejected"
    THEN [w EXCEPT !.tts = settlePromise(w.tts, "rejected")]
    ELSE w

\* ttsPromise is called: _connectWebSocket creates the connection and arms
\* the connect timer
StartTTS(j) ==
    /\ ws[j].st = "idle"
    /\ wsOpened' = newWebSocket(wsOpened)
    /\ ws' = [ws EXCEPT ![j] = [@ EXCEPT !.st = "connecting", !.sock = "connecting",
                                         !.sid = newWebSocket(wsOpened), !.connTimer = TRUE]]
    /\ UNCHANGED <<ssmlOf, saveSubtitles>>

\* 'open': speech.config is sent and the connect promise resolves; ttsPromise
\* goes on: it arms the turn timer, registers its handlers and sends the SSML
WsOpen(j) ==
    /\ ws[j].st = "connecting"
    /\ ws[j].sock = "connecting"
    /\ ~ws[j].errored
    /\ LET conn == settlePromise(ws[j].conn, "resolved")
       IN  IF conn = "resolved"
           THEN /\ ws' = [ws EXCEPT ![j] = [@ EXCEPT !.sock = "open", !.connTimer = FALSE,
                                                     !.conn = conn, !.st = "transmitting",
                                                     !.turnTimer = TRUE,
                                                     !.sent = sendFrame(sendFrame(@, "speech.config"),
                                                                        "ssml")]]
                /\ ssmlOf' = sendSSML(ssmlOf, ws[j].sid, j)
           ELSE /\ ws' = [ws EXCEPT ![j] = [@ EXCEPT !.sock = "open", !.connTimer = FALSE,
                                                     !.sent = sendFrame(@, "speech.config")]]
                /\ UNCHANGED ssmlOf
    /\ UNCHANGED <<wsOpened, saveSubtitles>>

\* the connect timer expires: the socket is closed, the connect promise rejects
ConnectTimeout(j) ==
    /\ ws[j].connTimer
    /\ ws' = [ws EXCEPT ![j] =
                AwaitConnect([@ EXCEPT !.connTimer = FALSE, !.sock = closeSocket(@),
                                       !.conn = settlePromise(@, "rejected"),
                                       !.bad = @ \/ ~ws[j].turnEnd])]
    /\ UNCHANGED <<wsOpened, ssmlOf, saveSubtitles>>

\* a turn timer shared by the calls: its expiry closes every socket and
\* rejects every call
TurnTimeoutOfAll(j) ==
    /\ ws[j].turnTimer
    /\ ws' = [k \in WsJobs |->
                [ws[k] EXCEPT !.turnTimer = FALSE, !.sock = closeSocket(@),
                              !.tts = settlePromise(@, "rejected"),
                              !.bad = @ \/ ~ws[k].turnEnd]]
    /\ UNCHANGED <<wsOpened, ssmlOf, saveSubtitles>>

\* the turn timer expires: the socket is closed, ttsPromise rejects
TurnTimeout(j) ==
    /\ ws[j].turnTimer
    /\ ws' = [ws EXCEPT ![j] = [@ EXCEPT !.turnTimer = FALSE, !.sock = closeSocket(@),
                                         !.tts = settlePromise(@, "rejected"),
                                         !.bad = @ \/ ~ws[j].turnEnd]]
    /\ UNCHANGED <<wsOpened, ssmlOf, saveSubtitles>>

\* 'error': the handler of _connectWebSocket runs and, once ttsPromise has
\* registered it, the handler of ttsPromise
WsError(j) ==
    /\ ws[j].sock \in {"connecting", "open", "closing"}
    /\ ~ws[j].errored
    /\ ws' = [ws EXCEPT ![j] =
                IF ws[j].st = "transmitting"
                THEN [@ EXCEPT !.errored = TRUE, !.connTimer = FALSE,
                               !.conn = settlePromise(@, "rejected"),
                               !.turnTimer = FALSE, !.fileEnded = TRUE,
                               !.sock = closeSocket(@),
                               !.tts = settlePromise(@, "rejected"),
                               !.bad = @ \/ ~ws[j].turnEnd]
                ELSE AwaitConnect([@ EXCEPT !.errored = TRUE, !.connTimer = FALSE,
                                            !.conn = settlePromise(@, "rejected"),
                                            !.bad = @ \/ ~ws[j].turnEnd])]
    /\ UNCHANGED <<wsOpened, ssmlOf, saveSubtitles>>

\* 'close' with a code: both close handlers
WsClose(j, code) ==
    /\ ws[j].sock \in {"connecting", "open", "closing"}
    /\ ws' = [ws EXCEPT ![j] =
                IF ws[j].st = "transmitting"
                THEN [@ EXCEPT !.sock = "closed", !.connTimer = FALSE,
                               !.conn = IF IsAbnormal(code) THEN settlePromise(@, "rejected") ELSE @,
                               !.turnTimer = FALSE,
                               !.fileEnded = @ \/ IsAbnormal(code),
                               !.tts = IF IsAbnormal(code) THEN settlePromise(@, "rejected") ELSE @,
                               !.bad = @ \/ (~ws[j].turnEnd /\ code # 1000)]
                ELSE AwaitConnect([@ EXCEPT !.sock = "closed", !.connTimer = FALSE,
                                            !.conn = IF IsAbnormal(code)
                                                     THEN settlePromise(@, "rejected") ELSE @,
                                            !.bad = @ \/ (~ws[j].turnEnd /\ code # 1000)])]
    /\ UNCHANGED <<wsOpened, ssmlOf, saveSubtitles>>

\* 'message': a binary frame ("audio"), a text frame with Path:audio.metadata
\* whose JSON parses ("metadata"), any other text frame but turn.end, also one
\* whose JSON does not parse ("other"), or the text frame Path:turn.end ("end")
WsMessage(j, frame) ==
    /\ ws[j].st = "transmitting"
    /\ ws[j].sock \in {"open", "closing"}
    /\ ~ws[j].errored
    /\ ~ws[j].turnEnd
    /\ frame # "end" => ws[j].frames < MaxFrames
    /\ ws' = [ws EXCEPT ![j] =
                CASE frame = "audio" ->
                        [@ EXCEPT !.frames = @ + 1,
                                  !.recv = Append(@, ws[j].frames + 1),
                                  !.file = IF ws[j].fileEnded THEN @
                                           ELSE Append(@, ws[j].frames + 1)]
                  [] frame = "metadata" ->
                        [@ EXCEPT !.frames = @ + 1,
                                  !.parsed = Append(@, ws[j].frames + 1),
                                  !.subFile = Append(@, ws[j].frames + 1)]
                  [] frame = "other" -> [@ EXCEPT !.frames = @ + 1]
                  [] frame = "end" ->
                        [@ EXCEPT !.turnEnd = TRUE, !.fileEnded = TRUE,
                                  !.sock = closeSocket(@),
                                  !.saved = IF saveSubtitles THEN ws[j].subFile ELSE @,
                                  !.wasSaved = saveSubtitles,
                                  !.turnTimer = FALSE,
                                  !.tts = settlePromise(@, "resolved")]]
    /\ UNCHANGED <<wsOpened, ssmlOf, saveSubtitles>>

InitWs ==
    /\ InitTts
    /\ NoSub
    /\ NoMerge
    /\ NoIds
    /\ NoMeta
    /\ NoRetry
    /\ ws = [j \in WsJobs |-> NoWs]
    /\ wsOpened = 0
    /\ ssmlOf = <<>>
    /\ saveSubtitles \in BOOLEAN

NextWs ==
    /\ \E j \in WsJobs :
        \/ StartTTS(j)
        \/ WsOpen(j)
        \/ ConnectTimeout(j)
        \/ TurnTimeout(j)
        \/ WsError(j)
        \/ \E code \in {1000, 1006} : WsClose(j, code)
        \/ \E frame \in {"audio", "metadata", "other", "end"} : WsMessage(j, frame)
    /\ UNCHANGED <<ttsVars, subVars, mergeVars, idVars, metaVars, retryVars>>

SpecWs == InitWs /\ [][NextWs]_vars

\* fair delivery: a timer that stays armed fires, and the socket events that
\* can occur keep occurring
SpecWsFair ==
    /\ InitWs
    /\ [][NextWs]_vars
    /\ WF_vars(NextWs)
    /\ \A j \in WsJobs : WF_wsVars(ConnectTimeout(j)) /\ WF_wsVars(TurnTimeout(j))

(***************************************************************************)
(* generateId(voice, text) and the names buildSegmentList derives from it, *)
(* for requests that are in progress at the same time.                     *)
(***************************************************************************)
\* ten characters, the length of the prefix of the text that enters the id
TenChars == [i \in 1..10 |-> "a"]

\* the texts asked for; the long ones differ after their tenth character
IdTexts == {<<"a">>, <<"b">>, <<" ">>, <<"-">>, TenChars \o <<"a">>, TenChars \o <<"b">>}

\* the characters of /[/\\?%*:|"<>\r\n\s#]/ that occur in IdTexts
UnsafeChars == {" "}

\* fileName.replace(/[/\\?%*:|"<>\r\n\s#]/g, '-')
safeFileName(fileName) ==
    [i \in 1..Len(fileName) |-> IF fileName[i] \in UnsafeChars THEN "-" ELSE fileName[i]]

\* s.slice(0, n)
slice(s, n) == SubSeq(s, 1, IF Len(s) < n THEN Len(s) ELSE n)

\* `${voice}-${safeFileName(text).slice(0, 10)}-${now}.mp3`, t being Date.now()
generateId(voice, text, t) ==
    [voice |-> voice, name |-> slice(safeFileName(text), 10), now |-> t]

\* tmpDirName: id.replace('.mp3', ''), under AUDIO_DIR
tmpDirPath(id) == [kind |-> "dir", name |-> id]

\* outputFile: AUDIO_DIR/<id>
outputFile(id) == [kind |-> "mp3", name |-> id]

\* a millisecond passes
Tick ==
    /\ now < MaxNow
    /\ now' = now + 1
    /\ UNCHANGED batches

\* generateTTS names the request (line 65) and buildSegmentList creates its
\* scratch directory
StartBatch(b, voice, text) ==
    /\ batches[b].st = "idle"
    /\ batches' = [batches EXCEPT ![b] = [st |-> "running", id |-> generateId(voice, text, now)]]
    /\ UNCHANGED now

\* buildSegmentList returns
EndBatch(b) ==
    /\ batches[b].st = "running"
    /\ batches' = [batches EXCEPT ![b].st = "done"]
    /\ UNCHANGED now

NextIds ==
    /\ \/ Tick
       \/ \E b \in IdBatches, voice \in Voices, text \in IdTexts : StartBatch(b, voice, text)
       \/ \E b \in IdBatches : EndBatch(b)
    /\ UNCHANGED <<ttsVars, subVars, mergeVars, wsVars, metaVars, retryVars>>

SpecIds == Init /\ [][NextIds]_vars

(***************************************************************************)
(* ttsPromise: the cues recorded for the events of audio.metadata frames.  *)
(* Offset and Duration are counted in ticks of 100 ns.                     *)
(***************************************************************************)
\* ticks in a millisecond
TicksPerMs == 10000

\* Math.round in place of Math.floor
roundMs(ticks) == (2 * ticks + TicksPerMs) \div (2 * TicksPerMs)

\* Math.floor(ticks / 10000)
floorMs(ticks) == ticks \div TicksPerMs

\* the offsets and durations the service reports; a duration below zero is
\* not expected of it
Offsets == {0, 9999, 25000}

Durations == {-1, 0, 1}

\* the numbers of events one frame carries
FrameSizes == {1, 2}

\* element['Data'] of an entry of metadata['Metadata']
MetaEvents == [Text : {<<"x">>, <<"y">>}, Offset : Offsets, Duration : Durations]

\* the object pushed for an element
subLine(element) ==
    [part |-> element.Text,
     start |-> floorMs(element.Offset),
     end |-> floorMs(element.Offset + element.Duration)]

\* metadata['Metadata'].forEach(element => subFile.push(...))
RECURSIVE PushAll(_, _)
PushAll(cues, elements) ==
    IF elements = <<>> THEN cues
    ELSE PushAll(Append(cues, subLine(elements[1])), Tail(elements))

\* a text frame with Path:audio.metadata whose last line parses arrives
OnMetadata(elements) ==
    /\ Len(metadata) + Len(elements) <= MaxEvents
    /\ metadata' = metadata \o elements
    /\ subLines' = PushAll(subLines, elements)

NextMeta ==
    /\ \E n \in FrameSizes : \E elements \in [1..n -> MetaEvents] : OnMetadata(elements)
    /\ UNCHANGED <<ttsVars, subVars, mergeVars, wsVars, idVars, retryVars>>

SpecMeta == Init /\ [][NextMeta]_vars

(***************************************************************************)
(* safeRunWithRetry(fn, options).  An option is <<>> when it is undefined  *)
(* and <<v>> when it is given as v.                                        *)
(***************************************************************************)
DefaultRetries == 3

DefaultBaseDelayMs == 200

RetriesOptions == {<<>>} \cup {<<n>> : n \in 0..MaxRetries}

BaseDelayOptions == {<<>>, <<0>>, <<100>>}

\* options.onError: undefined, or a handler of the caller that returns
OnErrorOptions == {<<>>, <<"custom">>}

RetryOptions == [retries : RetriesOptions, baseDelayMs : BaseDelayOptions, onError : OnErrorOptions]

\* a destructuring default applies to an undefined property
Default(opt, d) == IF opt = <<>> THEN d ELSE opt[1]

\* what fn resolves with
FnValues == {"v1", "v2"}

\* what fn rejects with (or throws): two Error objects, and null or undefined
FnErrors == {"e1", "e2", "nullish"}

PendingCall == [out |-> "pending", val |-> ""]

Returned(v) == [kind |-> "returned", val |-> v]

Thrown(err) == [kind |-> "thrown", val |-> err]

\* defaultErrorHandler reads (err as Error).message, a TypeError when err is
\* null or undefined; every other value has (or lacks) the property quietly
defaultErrorHandlerThrows(err) == err = "nullish"

\* asyncSleep's argument after the failure of attempt number k
delayAfter(base, k) == base * k

\* the call itself: the destructuring of options, and attempt = 0
SafeRunWithRetry(options) ==
    /\ retryPc = "idle"
    /\ retries' = Default(options.retries, DefaultRetries)
    /\ baseDelayMs' = Default(options.baseDelayMs, DefaultBaseDelayMs)
    /\ onError' = Default(options.onError, "defaultErrorHandler")
    /\ attempt' = 0
    /\ retryPc' = "for"
    /\ UNCHANGED <<fnCalls, onErrorCalls, sleeps, retryResult>>

\* attempt < retries holds: fn() is invoked and awaited
InvokeFn ==
    /\ retryPc = "for"
    /\ attempt < retries
    /\ fnCalls' = Append(fnCalls, PendingCall)
    /\ retryPc' = "fn"
    /\ UNCHANGED <<retries, baseDelayMs, onError, attempt, onErrorCalls, sleeps, retryResult>>

\* attempt < retries fails: the statement after the loop
UnexpectedFlow ==
    /\ retryPc = "for"
    /\ ~(attempt < retries)
    /\ retryPc' = "thrown"
    /\ retryResult' = Thrown("Unexpected execution flow")
    /\ UNCHANGED <<retries, baseDelayMs, onError, attempt, fnCalls, onErrorCalls, sleeps>>

\* a success that does not return: the loop goes on to the next attempt
FnResolvesAndGoesOn(v) ==
    /\ retryPc = "fn"
    /\ fnCalls' = [fnCalls EXCEPT ![Len(fnCalls)] = [out |-> "value", val |-> v]]
    /\ attempt' = attempt + 1
    /\ retryPc' = "for"
    /\ UNCHANGED <<retries, baseDelayMs, onError, onErrorCalls, sleeps, retryResult>>

\* return await fn(), fn's promise resolved with v
FnResolves(v) ==
    /\ retryPc = "fn"
    /\ fnCalls' = [fnCalls EXCEPT ![Len(fnCalls)] = [out |-> "value", val |-> v]]
    /\ retryPc' = "returned"
    /\ retryResult' = Returned(v)
    /\ UNCHANGED <<retries, baseDelayMs, onError, attempt, onErrorCalls, sleeps>>

\* the catch block, fn's promise rejected with err (or fn threw err)
FnRejects(err) ==
    /\ retryPc = "fn"
    /\ fnCalls' = [fnCalls EXCEPT ![Len(fnCalls)] = [out |-> "error", val |-> err]]
    /\ onErrorCalls' = Append(onErrorCalls, <<err, attempt + 1>>)
    /\ IF onError = "defaultErrorHandler" /\ defaultErrorHandlerThrows(err)
       THEN /\ retryPc' = "thrown"
            /\ retryResult' = Thrown("TypeError")
            /\ UNCHANGED sleeps
       ELSE IF attempt < retries - 1
       THEN /\ retryPc' = "sleep"
            /\ sleeps' = Append(sleeps, [after |-> attempt + 1,
                                         ms |-> delayAfter(baseDelayMs, attempt + 1)])
            /\ UNCHANGED retryResult
       ELSE /\ retryPc' = "thrown"
            /\ retryResult' = Thrown(err)
            /\ UNCHANGED sleeps
    /\ UNCHANGED <<retries, baseDelayMs, onError, attempt>>

\* asyncSleep's timer fires: attempt++ and the loop test again
Wake ==
    /\ retryPc = "sleep"
    /\ attempt' = attempt + 1
    /\ retryPc' = "for"
    /\ UNCHANGED <<retries, baseDelayMs, onError, fnCalls, onErrorCalls, sleeps, retryResult>>

NextRetry ==
    /\ \/ \E options \in RetryOptions : SafeRunWithRetry(options)
       \/ InvokeFn
       \/ UnexpectedFlow
       \/ \E v \in FnValues : FnResolves(v)
       \/ \E err \in FnErrors : FnRejects(err)
       \/ Wake
    /\ UNCHANGED <<ttsVars, subVars, mergeVars, wsVars, idVars, metaVars>>

SpecRetry == Init /\ [][NextRetry]_vars

(***************************************************************************)
(* Properties of the orchestration.                                        *)
(***************************************************************************)
IsBatch == Len(jobs) > 1

\* the controller has resolved and buildSegmentList has gone on to the merge
AfterMerge == IsBatch /\ pc \in {"setAudio", "done"}

Failed == {i \in 1..Len(jobs) : jobs[i] = "failed"}

Succeeded == {i \in 1..Len(jobs) : jobs[i] = "ok"}

\* C1: while the segment tasks of a batch run, at most 3 of them are active
\* (started and not yet settled) at any moment.
C1_BoundedConcurrency == Cardinality(Active(jobs)) <= 3

\* three tasks active, among them the fourth, admitted when an earlier one settled
C1_Witness ==
    /\ Cardinality(Active(jobs)) = 3
    /\ Terminal(jobs) # {}
    /\ Len(jobs) > 3 /\ 4 \in Active(jobs)

\* C2: the outcome stored at position i is the outcome of task i: a settled
\* task has its own outcome at its own position, at every moment and so when
\* the controller resolves, and an unsettled task has none.
C2_OutcomesAligned ==
    \A i \in 1..Len(jobs) :
        /\ jobs[i] = "failed" => results[i] = Rejected
        /\ jobs[i] = "ok" =>
              /\ results[i].success
              /\ results[i].audio.txt = <<req.text[i]>>
        /\ i \notin Terminal(jobs) => results[i] = Pending

\* the controller resolved after task 3 settled before task 1 and task 2 failed
C2_Witness ==
    /\ AfterMerge
    /\ Len(fileList) = 2
    /\ fileList[1].num = 3 /\ fileList[2].num = 1
    /\ jobs[2] = "failed"

\* C3: a failed task takes nothing from its siblings: while tasks wait, every
\* slot is in use, failures or not; while tasks are unsettled one of them is
\* running; and the controller resolves only with every task settled and the
\* failure stored as a failed outcome at the task's position.
C3_FailureIsolated ==
    /\ (pc = "batch" /\ Count(jobs, "pending") > 0) => Cardinality(Active(jobs)) = limit
    /\ (pc = "batch" /\ Terminal(jobs) # 1..Len(jobs)) => Active(jobs) # {}
    /\ AfterMerge =>
          /\ Terminal(jobs) = 1..Len(jobs)
          /\ \A i \in 1..Len(jobs) : i \in Failed <=> ~results[i].success

\* the first task failed, and the last one, admitted after it, succeeded
C3_Witness ==
    /\ AfterMerge
    /\ Len(jobs) > limit
    /\ jobs[1] = "failed"
    /\ fileList # <<>> /\ fileList[1].num = 1
    /\ jobs[Len(jobs)] = "ok"

\* C4: a call writes the cache under its own key at most once, and only when
\* no segment task of its batch failed; the key of a call that did not hit
\* the cache holds an entry only after such a write.
C4_NoCacheWriteWhenPartial ==
    /\ keyWrites <= 1
    /\ keyWrites = 1 => Failed = {} /\ ~outcome.partial
    /\ pc = "setAudio" => Failed = {} /\ ~outcome.partial
    /\ (outcome.kind # "hit" /\ ReqKey \in DOMAIN cache) => keyWrites = 1 /\ Failed = {}

\* a batch returned a partial result and nothing is cached under its key
C4_Witness ==
    /\ pc = "done"
    /\ outcome.kind = "ok" /\ outcome.partial
    /\ Succeeded # {} /\ Failed # {}
    /\ ReqKey \notin DOMAIN cache

\* C5: a call whose parameters are those of an earlier call that returned a
\* complete artifact is answered from the cache: it returns the location the
\* earlier call returned, opens no session and sends no LLM request.
C5_SecondCallHits ==
    (pc # "idle" /\ ReqKey \in DOMAIN succeeded) =>
        /\ pc = "done"
        /\ outcome.kind = "hit"
        /\ outcome.audio = succeeded[ReqKey]
        /\ sessions = 0 /\ llmCalls = 0

\* the second call of a text synthesized by the first
C5_Witness ==
    /\ pc = "done"
    /\ ReqKey \in DOMAIN succeeded
    /\ succeeded[ReqKey] = OutFile(1, req.text)
    /\ outcome.kind = "hit"

C7_PartialIffFailed ==
    (AfterMerge /\ outcome.kind = "ok") => (outcome.partial <=> Failed # {})

\* a partial result of a batch whose first task succeeded and last task failed
C7_Witness ==
    /\ AfterMerge
    /\ outcome.kind = "ok" /\ outcome.partial
    /\ jobs[1] = "ok" /\ jobs[Len(jobs)] = "failed"

\* C8 as stated: the files handed to the merge are the files of the tasks
\* whose outcome is success, and no others.
C8_MergedAreSucceeded ==
    AfterMerge =>
        Range(merged) = {results[i].audio : i \in {k \in 1..Len(results) : results[k].success}}

\* the texts of the segments whose task succeeded, in index order
RECURSIVE TextsByIndex(_, _)
TextsByIndex(res, text) ==
    IF res = <<>> THEN <<>>
    ELSE TextsByIndex(SubSeq(res, 1, Len(res) - 1), text)
           \o (IF res[Len(res)].success THEN <<text[Len(res)]>> ELSE <<>>)

\* what the files of a list speak, one after the other
RECURSIVE Spoken(_)
Spoken(files) == IF files = <<>> THEN <<>> ELSE files[1].txt \o Spoken(Tail(files))

\* s can be obtained from t by dropping entries
RECURSIVE IsSubsequence(_, _)
IsSubsequence(s, t) ==
    IF s = <<>> THEN TRUE
    ELSE IF t = <<>> THEN FALSE
    ELSE IF s[1] = t[1] THEN IsSubsequence(Tail(s), Tail(t))
    ELSE IsSubsequence(s, Tail(t))

\* C9 as stated: the merge takes the files in segment index order: what the
\* merged list speaks has the segments of the successful tasks in the order
\* of their indices, for every completion order and every mix of cache hits
\* and misses.
C9_MergedInIndexOrder ==
    (AfterMerge /\ outcome.kind = "ok") =>
        IsSubsequence(TextsByIndex(results, req.text), Spoken(merged))

\* the text of the current call is not detected as English and its voice is
\* an English voice
NonEnglishForEnglishVoice == pc # "idle" /\ getLangConfig(req.text) # "eng" /\ req.voice = "en-US"

\* the call ended with the validation error and without any remote operation
FailedFast ==
    /\ pc = "done"
    /\ outcome = Error("validation")
    /\ sessions = 0 /\ llmCalls = 0
    /\ jobs = <<>> /\ keyWrites = 0

\* C14 as stated: a call whose text is not detected as English and whose voice
\* is an English voice ends with the validation error; no session was opened,
\* no LLM request sent and no cache entry written.
C14_ValidationFailsFast == NonEnglishForEnglishVoice => FailedFast

\* C14, amended: such a call ends with the validation error, and without any
\* remote operation, when the cache holds no entry under its key; when it
\* holds one the call returns that entry, again without any remote operation.
C14_ValidationFailsFastOnMiss ==
    NonEnglishForEnglishVoice =>
        IF ReqKey \in DOMAIN cache
        THEN /\ pc = "done"
             /\ outcome.kind = "hit" /\ outcome.audio = cache[ReqKey]
             /\ sessions = 0 /\ llmCalls = 0
             /\ jobs = <<>> /\ keyWrites = 0
        ELSE FailedFast

\* the validation error of a call made after others filled the cache
C14_Witness ==
    /\ NonEnglishForEnglishVoice
    /\ FailedFast
    /\ cache # <<>>

\* every segment of text is in parts, as often as it is in text
Covers(parts, text) ==
    \A seg \in SegTexts :
        Cardinality({k \in 1..Len(parts) : parts[k] = seg})
            >= Cardinality({k \in 1..Len(text) : text[k] = seg})

MissedAndValid == pc # "idle" /\ outcome.kind # "hit" /\ outcome.err # "validation"

\* C16 as stated: a call that missed the cache and passed validation has, when
\* it ends, for a text of more than one segment scheduled a task for every
\* segment, with every task settled and, when a result is returned, a merge
\* of their files, whatever useLLM is; for a text of one segment it has
\* scheduled no task, merged nothing and opened at most one session.
C16_MultiSegmentGoesThroughBatch ==
    (pc = "done" /\ MissedAndValid) =>
        IF Len(req.text) > 1
        THEN /\ Len(jobs) = Len(req.text)
             /\ Terminal(jobs) = 1..Len(jobs)
             /\ outcome.kind = "ok" => merged # <<>>
        ELSE /\ jobs = <<>> /\ merged = <<>>
             /\ sessions <= 1
             /\ outcome.kind = "ok" => sessions = 1

\* C17: a call for a text of one segment never returns a result marked
\* partial and runs no batch; when the synthesis of the segment fails the call
\* ends in an error, without a result, and has written nothing to the cache:
\* its key has no entry.
C17_SingleFailureIsError ==
    (pc # "idle" /\ Len(req.text) = 1) =>
        /\ ~outcome.partial
        /\ jobs = <<>>
        /\ (pc \in {"single", "runEdgeTTS"}) => outcome = NoOutcome
        /\ outcome.err = "synthesis" =>
              /\ pc = "done"
              /\ outcome.kind = "error" /\ outcome.audio = NoFile
              /\ keyWrites = 0
              /\ ReqKey \notin DOMAIN cache

\* the synthesis of a one-segment text failed, after an earlier call filled the cache
C17_Witness ==
    /\ pc = "done"
    /\ Len(req.text) = 1 /\ ~req.useLLM
    /\ outcome = Error("synthesis")
    /\ sessions = 1
    /\ cache # <<>>

\* the tasks of the current batch that are past their cache read without a
\* hit: those that asked for a synthesis, when a failed read counts as a miss
Attempted ==
    {i \in 1..Len(jobs) :
        \/ jobs[i] \in {"synth", "setAudio", "failed"}
        \/ SegFile(calls, i, <<req.text[i]>>) \in Range(fileList)}

\* C18 as stated: no call ends in an error because a cache read or a cache
\* write failed; a task whose audio was produced is not failed by its cache
\* write; and a task whose cache read failed goes on to synthesize: a session
\* was opened for every task that is past its cache read without a hit.
C18_CacheFailureNeverAborts ==
    /\ outcome.err # "cache"
    /\ \A i \in 1..Len(jobs) :
          jobs[i] = "failed" => SegFile(calls, i, <<req.text[i]>>) \notin Range(fileList)
    /\ IsBatch => sessions >= Cardinality(Attempted)

\* the current call repeats the call before it, which returned a partial result
RetryOfPartial == pc # "idle" /\ prev.partial /\ prev.req = req

\* the positions of segment text seg in the text of the current call
PositionsOf(seg) == {i \in 1..Len(req.text) : req.text[i] = seg}

\* every cache entry holds the audio of the text of its key, and a batch that
\* ended partial left no entry for a segment text none of whose tasks succeeded
EntriesOnlyForSucceeded ==
    /\ \A key \in DOMAIN cache : cache[key].txt = key[1]
    /\ (pc = "done" /\ outcome.kind = "ok" /\ outcome.partial) =>
          \A seg \in SegTexts :
              (PositionsOf(seg) # {} /\ PositionsOf(seg) \subseteq Failed) =>
                  generateTaskId(<<seg>>, req.voice) \notin DOMAIN cache

\* C19 as stated: the call that repeats a call which returned a partial result
\* gets no cache hit under the request key and runs the batch again; for
\* every segment whose task failed in the earlier call, the task of that
\* segment asks for a synthesis again; cache entries exist only for segments
\* whose synthesis succeeded.
C19_RetriesFailedSegments ==
    /\ RetryOfPartial =>
          /\ outcome.kind # "hit"
          /\ Len(jobs) = Len(req.text)
          /\ \A i \in prev.failed : jobs[i] \notin {"pending", "getAudio"} => i \in Attempted
    /\ EntriesOnlyForSucceeded

\* C19, amended: as above, but a synthesis is asked for again for every
\* segment text all of whose tasks failed in the earlier call: once the tasks
\* of such a text are past their cache read, one of them has asked for a
\* synthesis.  (A failed segment whose text succeeded at another position is
\* served from that position's cache entry.)
C19_RetriesFailedTexts ==
    /\ RetryOfPartial =>
          /\ outcome.kind # "hit"
          /\ Len(jobs) = Len(req.text)
          /\ \A seg \in SegTexts :
                (/\ PositionsOf(seg) # {}
                 /\ PositionsOf(seg) \subseteq prev.failed
                 /\ \A i \in PositionsOf(seg) : jobs[i] \notin {"pending", "getAudio"})
                    => PositionsOf(seg) \cap Attempted # {}
    /\ EntriesOnlyForSucceeded

\* the repeated call synthesized the segment that had failed and is complete
C19_Witness ==
    /\ RetryOfPartial
    /\ pc = "done"
    /\ outcome.kind = "ok" /\ ~outcome.partial
    /\ req.text = <<"a", "b">>
    /\ prev.failed = {2}
    /\ fileList[2] = SegFile(calls, 2, <<"b">>)
    /\ results[1].audio = SegFile(1, 1, <<"a">>)

\* C22: the values passed to updateProgress during one batch, in the order of
\* the calls, never decrease.
C22_ProgressNonDecreasing ==
    \A k \in 1..(Len(progress) - 1) : progress[k] <= progress[k + 1]

\* three segments: the first failed, the two others were synthesized, the
\* merge succeeded
C22_Witness ==
    /\ Len(jobs) = 3 /\ jobs[1] = "failed"
    /\ progress = <<toFixed(100, 3), toFixed(200, 3), toFixed(100, 1)>>
    /\ progress[1] < progress[2] /\ progress[2] < progress[3]
    /\ outcome.kind = "ok" /\ outcome.partial

\* C23: once 100 has been passed to updateProgress, every task of the batch
\* has settled.
C23_HundredOnlyWhenAllSettled ==
    (\E k \in 1..Len(progress) : progress[k] = toFixed(100, 1)) =>
        Terminal(jobs) = 1..Len(jobs)

\* C24: while the batch runs, the tasks that have started are the first ones
\* of the input order, and no slot is left free while a task waits: fewer
\* than `limit` tasks are running only when every task has started.
C24_SlidingWindowInOrder ==
    pc = "batch" =>
        /\ \A i \in 1..Len(jobs) :
              jobs[i] # "pending" => \A k \in 1..(i - 1) : jobs[k] # "pending"
        /\ Cardinality(Active(jobs)) < limit => Count(jobs, "pending") = 0

\* four segments: the second task settled while the first and the third
\* still run, and the fourth was admitted in its place
C24_Witness ==
    /\ pc = "batch" /\ Len(jobs) = 4
    /\ jobs[1] = "synth" /\ jobs[2] \in {"ok", "failed"}
    /\ jobs[3] = "synth" /\ jobs[4] = "getAudio"

\* C25: two requests that are in progress at the same time have different
\* scratch directories and different output files.
C25_ScratchIsPrivate ==
    \A b, c \in IdBatches :
        (b # c /\ batches[b].st = "running" /\ batches[c].st = "running") =>
            /\ tmpDirPath(batches[b].id) # tmpDirPath(batches[c].id)
            /\ outputFile(batches[b].id) # outputFile(batches[c].id)

\* a cache hit that returns what the call just before produced
HitOnPrevious == outcome.kind = "hit" /\ outcome.audio.id = calls - 1

\* C26: a cache hit returns an artifact that was produced for the text and
\* the voice asked for and under the same value of useLLM.
C26_HitUnderSameFields ==
    HitOnPrevious =>
        /\ outcome.audio.txt = req.text
        /\ prev.req.voice = req.voice
        /\ prev.req.useLLM = req.useLLM

\* C31: a value passed to updateProgress is the share of the tasks that have
\* settled, as a percentage rounded like getProgress rounds.
C31_ProgressIsSettledShare ==
    [][Len(progress') = Len(progress) + 1 =>
          progress'[Len(progress')]
              = toFixed(Cardinality(Terminal(jobs')) * 100, Len(jobs'))]_vars

\* C32: when the reply of the model has a result that is not an array, the
\* call ends there with an error: no synthesis session has been opened, no
\* second request is sent to the model, nothing is written to the cache and
\* no result, partial or not, is returned.
C32_NonArrayResultIsFatal ==
    [][\A reply \in {"falsy", "other"} :
          LLMReply(reply) =>
              /\ pc' = "done" /\ outcome'.kind = "error"
              /\ sessions' = 0 /\ llmCalls' = 1
              /\ cache' = cache]_vars

RECURSIVE Parts(_)
Parts(cues) == IF cues = <<>> THEN <<>> ELSE cues[1].part \o Parts(Tail(cues))

\* C10 as stated, for the fragment sequences that have a cue to carry the
\* text: for every text and every such sequence of fragments, the parts of the
\* cues _saveSubFile writes, concatenated in order, are the text.
C10_CharacterPreservation == (subSaved /\ subFile # <<>>) => Parts(subFile) = subText

\* the index into the fragment `part` of the character expected at position
\* i of the text, by a scan that started at position s
RECURSIVE ExpectedAt(_, _, _, _)
ExpectedAt(text, part, s, i) ==
    IF i = s THEN 1
    ELSE LET e == ExpectedAt(text, part, s, i - 1)
         IN  IF e <= Len(part) /\ text[i - 1] = part[e] THEN e + 1 ELSE e

\* the character at position i is not the one expected
Mismatch(text, part, s, i) ==
    LET e == ExpectedAt(text, part, s, i)
    IN  ~(e <= Len(part) /\ text[i] = part[e])

\* ch is the first character of the fragment of the cue after cue k
IsNextFirst(cues, k, ch) ==
    k < Len(cues) /\ cues[k + 1].part # <<>> /\ cues[k + 1].part[1] = ch

\* where the scan for cue k started, read off the parts written: at the
\* character the scan for the cue before stopped at or, when that scan ran to
\* the end of the text, where that scan started
RECURSIVE ScanStart(_, _, _)
ScanStart(written, text, k) ==
    IF k = 1 THEN 1
    ELSE LET s == ScanStart(written, text, k - 1)
             e == s + Len(written[k - 1].part)
         IN  IF e <= Len(text) THEN e ELSE s

\* written is what the scan rule of C27 makes of the cues and the text
ScannedAsStated(cues, text, written) ==
    /\ Len(written) = Len(cues)
    /\ \A k \in 1..Len(cues) :
          LET s == ScanStart(written, text, k)
              e == s + Len(written[k].part)
          IN  /\ written[k].start = cues[k].start /\ written[k].end = cues[k].end
              /\ e <= Len(text) + 1
              /\ written[k].part = SubSeq(text, s, e - 1)
              /\ \A i \in s..(e - 1) :
                    Mismatch(text, cues[k].part, s, i) => ~IsNextFirst(cues, k, text[i])
              /\ e <= Len(text) =>
                    /\ Mismatch(text, cues[k].part, s, e)
                    /\ IsNextFirst(cues, k, text[e])
                    /\ written[k + 1].part # <<>>
                    /\ written[k + 1].part[1] = text[e]
              /\ k = Len(cues) => e = Len(text) + 1

\* C27: the part written for cue k is the run of the text from where its scan
\* started; a character in it that is not the expected one of cue k's
\* fragment is not the first character of cue k+1's fragment; a run that
\* ends before the end of the text ends before such a character, and the
\* part of cue k+1 starts with that character; the run of the last cue ends
\* at the end of the text.
C27_ScanRule == [][SaveSubFile => ScannedAsStated(subFile, subText, subFile')]_vars

\* text xyx: the first cue kept x and the unexpected y and stopped at the
\* second x, where the last cue started and ran to the end
C27_Witness ==
    /\ subSaved
    /\ subText = <<"x", "y", "x">>
    /\ Len(subFile) = 2
    /\ subFile[1].part = <<"x", "y">>
    /\ subFile[2].part = <<"x">>

\* the cue lists have as many cues, and cue k of both has the same start and
\* end time
SameTiming(cues, written) ==
    /\ Len(written) = Len(cues)
    /\ \A k \in 1..Len(cues) :
          written[k].start = cues[k].start /\ written[k].end = cues[k].end

\* C36: _saveSubFile changes only the text of the cues: for every text and
\* every fragment sequence, the cues written are as many as the cues given, in
\* the same order, each with the start and the end time it had.
C36_OnlyTextChanges == [][SaveSubFile => SameTiming(subFile, subFile')]_vars

\* text yxy over two cues: the first kept y, the second took xy, and both
\* kept their times
C36_Witness ==
    /\ subSaved
    /\ subText = <<"y", "x", "y">>
    /\ subFile = <<[part |-> <<"y">>, start |-> 0, end |-> 1],
                   [part |-> <<"x", "y">>, start |-> 1, end |-> 2]>>

(***************************************************************************)
(* Properties of the subtitle merge.                                       *)
(***************************************************************************)
\* start and end times never go back from one cue of the list to the next
NonDecreasing(list) ==
    \A k \in 1..(Len(list) - 1) :
        list[k].start <= list[k + 1].start /\ list[k].end <= list[k + 1].end

\* the number of merged cues that come from the first n cue lists
CuesOfFirst(files, n) == Len(MergeFrom(SubSeq(files, 1, n), 0))

\* C11: when the timestamps of every per-segment cue list are non-decreasing,
\* the timestamps of the merged cue list are non-decreasing from its first cue
\* to its last, and across every segment boundary: no cue starts before the
\* end of a cue that comes from an earlier segment.
C11_MergedNonDecreasing ==
    (mergeDone /\ \A n \in 1..Len(subtitleFiles) : NonDecreasing(subtitleFiles[n])) =>
        /\ NonDecreasing(mergedJson)
        /\ \A n \in 1..(Len(subtitleFiles) - 1) :
              \A m \in 1..CuesOfFirst(subtitleFiles, n) :
                 \A k \in (CuesOfFirst(subtitleFiles, n) + 1)..Len(mergedJson) :
                    mergedJson[m].end <= mergedJson[k].start

\* two segments merged, the second starting at 0 after the first ended at 1
C11_Witness ==
    /\ mergeDone
    /\ Len(subtitleFiles) = 2
    /\ \A n \in 1..2 : NonDecreasing(subtitleFiles[n]) /\ Len(subtitleFiles[n]) = 2
    /\ subtitleFiles[1][2].end = 1
    /\ subtitleFiles[2][1].start = 0
    /\ mergedJson[3].start = 1

\* the base offset of the n-th list: the final cue end times of the lists
\* before it, added up
RECURSIVE BaseOf(_, _)
BaseOf(files, n) ==
    IF n <= 1 THEN 0
    ELSE BaseOf(files, n - 1)
           + (IF files[n - 1] = <<>> THEN 0 ELSE files[n - 1][Len(files[n - 1])].end)

\* the number of cues of the lists before the n-th
RECURSIVE CuesBefore(_, _)
CuesBefore(files, n) == IF n <= 1 THEN 0 ELSE CuesBefore(files, n - 1) + Len(files[n - 1])

\* C28: the merged list holds the cues of all lists, list after list and in
\* the order of each list; the cues of the n-th list keep their part and have
\* their start and end increased by the base offset of that list, which is 0
\* for the first list and grows after each list by the end time, as read, of
\* the list's final cue.
C28_OffsetCarryingMerge ==
    mergeDone =>
        /\ Len(mergedJson) = CuesBefore(subtitleFiles, Len(subtitleFiles) + 1)
        /\ \A n \in 1..Len(subtitleFiles) :
              \A i \in 1..Len(subtitleFiles[n]) :
                 LET cue == subtitleFiles[n][i]
                     emitted == mergedJson[CuesBefore(subtitleFiles, n) + i]
                 IN  /\ emitted.part = cue.part
                     /\ emitted.start = cue.start + BaseOf(subtitleFiles, n)
                     /\ emitted.end = cue.end + BaseOf(subtitleFiles, n)

\* a list of one cue that ends at 1, then a list of two cues: both are
\* emitted one millisecond later
C28_Witness ==
    /\ mergeDone
    /\ Len(subtitleFiles) = 2
    /\ Len(subtitleFiles[1]) = 1 /\ subtitleFiles[1][1].end = 1
    /\ Len(subtitleFiles[2]) = 2
    /\ subtitleFiles[2][1].start = 0 /\ subtitleFiles[2][1].end = 0
    /\ subtitleFiles[2][2].start = 0 /\ subtitleFiles[2][2].end = 1
    /\ Len(mergedJson) = 3
    /\ mergedJson[2].start = 1 /\ mergedJson[2].end = 1
    /\ mergedJson[3].start = 1 /\ mergedJson[3].end = 2

\* ms is the number of whole milliseconds in ticks
IsFloorMs(ms, ticks) == ms * TicksPerMs <= ticks /\ ticks < (ms + 1) * TicksPerMs

\* C29: there is one cue for every metadata event received, in the order of
\* arrival; its start is the number of whole milliseconds in the event's
\* offset, its end the number of whole milliseconds in offset + duration;
\* when the duration is not negative, start <= end.
C29_TicksToMs ==
    /\ Len(subLines) = Len(metadata)
    /\ \A k \in 1..Len(metadata) :
          /\ subLines[k].part = metadata[k].Text
          /\ IsFloorMs(subLines[k].start, metadata[k].Offset)
          /\ IsFloorMs(subLines[k].end, metadata[k].Offset + metadata[k].Duration)
          /\ metadata[k].Duration >= 0 => subLines[k].start <= subLines[k].end

\* an event from tick 9999 that lasts one tick, then one at tick 25000 that
\* lasts none
C29_Witness ==
    /\ Len(metadata) = 2
    /\ metadata[1].Offset = 9999 /\ metadata[1].Duration = 1
    /\ metadata[2].Offset = 25000 /\ metadata[2].Duration = 0
    /\ subLines[1].start = 0 /\ subLines[1].end = 1
    /\ subLines[2].start = 2 /\ subLines[2].end = 2

(***************************************************************************)
(* Properties of safeRunWithRetry.                                         *)
(***************************************************************************)
\* the invocations of fn that resolved
ResolvedCalls(cs) == {k \in 1..Len(cs) : cs[k].out = "value"}

\* C37: with retries = n >= 1, fn is invoked at most n times; an invocation
\* starts only after every earlier one has failed, so there is one attempt at
\* a time and none after a success; when an attempt succeeds the call returns,
\* and what it returns is the value of that attempt, the first to succeed.
C37_AtMostNAttemptsFirstSuccessReturned ==
    (retryPc # "idle" /\ retries >= 1) =>
        /\ Len(fnCalls) <= retries
        /\ \A k \in 1..(Len(fnCalls) - 1) : fnCalls[k].out = "error"
        /\ ResolvedCalls(fnCalls) # {} =>
              /\ retryPc = "returned"
              /\ retryResult = Returned(fnCalls[Len(fnCalls)].val)
        /\ retryPc = "returned" => ResolvedCalls(fnCalls) = {Len(fnCalls)}

\* three attempts allowed: the first failed, the second succeeded with v2, the
\* call returned v2 and the third attempt never happened
C37_Witness ==
    /\ retryPc = "returned"
    /\ retries = 3
    /\ Len(fnCalls) = 2
    /\ fnCalls[1].out = "error"
    /\ fnCalls[2] = [out |-> "value", val |-> "v2"]
    /\ retryResult = Returned("v2")

\* every one of the n attempts has been made and has failed
AllAttemptsFailed ==
    /\ retryPc = "thrown"
    /\ retries >= 1
    /\ Len(fnCalls) = retries
    /\ \A k \in 1..retries : fnCalls[k].out = "error"

\* C38: when all n >= 1 attempts fail, the call throws the error of the last
\* attempt; onError has been called once per failed attempt, with that
\* attempt's error and the attempt numbers 1..n in order; a delay of
\* baseDelayMs * k was awaited after failed attempt k for k < n, and none
\* after attempt n.
C38_LastErrorAfterAllFail ==
    AllAttemptsFailed =>
        /\ retryResult = Thrown(fnCalls[retries].val)
        /\ onErrorCalls = [k \in 1..retries |-> <<fnCalls[k].val, k>>]
        /\ sleeps = [k \in 1..(retries - 1) |-> [after |-> k, ms |-> baseDelayMs * k]]

(***************************************************************************)
(* Properties of the synthesis session.                                    *)
(***************************************************************************)
\* C12: a call of ttsPromise during which, before turn.end was received, the
\* socket closed with a code other than 1000, an error event occurred or the
\* connect or turn timer expired, has rejected, and it stays rejected: it is
\* never resolved.
C12_FailsOnEarlyFailure == \A j \in WsJobs : ws[j].bad => ws[j].tts = "rejected"

\* the turn timer expired, and turn.end came after it
C12_Witness ==
    /\ ws[1].bad /\ ws[1].turnEnd
    /\ ws[1].st = "transmitting"
    /\ ws[1].sock = "closing"
    /\ ws[1].tts = "rejected"

C20_OneSessionPerJob ==
    /\ wsOpened = Cardinality({j \in WsJobs : ws[j].st # "idle"})
    /\ \A j \in WsJobs :
          /\ ws[j].st # "idle" => ws[j].sid \in 1..wsOpened
          /\ ws[j].st = "transmitting" =>
                (ws[j].sid \in DOMAIN ssmlOf /\ ssmlOf[ws[j].sid] = <<j>>)
          /\ ws[j].st = "connecting" => ws[j].sid \notin DOMAIN ssmlOf
    /\ \A j, k \in WsJobs : (j # k /\ ws[j].st # "idle") => ws[j].sid # ws[k].sid
    /\ \A sid \in DOMAIN ssmlOf : Len(ssmlOf[sid]) = 1

\* two calls exchange frames at the same time, each on its own connection
C20_Witness ==
    /\ \A j \in WsJobs : ws[j].st = "transmitting" /\ ws[j].sock = "open" /\ ws[j].frames = 1
    /\ ws[1].sid = 2 /\ ws[2].sid = 1
    /\ ssmlOf = <<(<<2>>), (<<1>>)>>


\* C21: when the connect timer or the turn timer of a call expires, the
\* socket of that call goes from connecting or open to closing and that call
\* is rejected; the socket, the timers, the promises and the files of every
\* other call are what they were, and so are the connections created and the
\* requests sent.
C21_TimerExpiryIsLocal ==
    [][\A j \in WsJobs :
          (ConnectTimeout(j) \/ TurnTimeout(j)) =>
              /\ ws[j].sock \in {"connecting", "open"}
              /\ ws'[j].sock = "closing"
              /\ ws'[j].tts = "rejected"
              /\ \A k \in WsJobs \ {j} : ws'[k] = ws[k]
              /\ UNCHANGED <<wsOpened, ssmlOf>>]_vars

\* the turn timer of call 1 expired while call 2 was receiving; call 2 went
\* on to turn.end and resolved
C21_Witness ==
    /\ ws[1].st = "transmitting" /\ ws[1].bad /\ ~ws[1].errored
    /\ ws[1].sock = "closing" /\ ws[1].tts = "rejected"
    /\ ws[2].turnEnd /\ ~ws[2].bad /\ ws[2].tts = "resolved"
    /\ ws[2].recv = <<1>>


\* the connection of call j has opened
HasOpened(j) == ws[j].sock = "open" \/ ws[j].st = "transmitting"

\* C30: on a connection that has opened the client has sent two frames, first
\* speech.config and then ssml, both from the moment of the open on and none
\* after; on a connection that has not opened it has sent nothing.
C30_ConfigThenSsmlOnce ==
    \A j \in WsJobs :
        /\ HasOpened(j) => ws[j].sent = <<"speech.config", "ssml">>
        /\ ~HasOpened(j) => ws[j].sent = <<>>

\* call 1 has opened, exchanged frames and ended its turn; the connect timer
\* of call 2 expired and its connection closed without having opened
C30_Witness ==
    /\ ws[1].turnEnd /\ ws[1].frames = 2 /\ ws[1].sock = "closed"
    /\ ws[1].sent = <<"speech.config", "ssml">>
    /\ ws[2].st = "connecting" /\ ws[2].conn = "rejected" /\ ws[2].sock = "closed"
    /\ ws[2].sent = <<>>


\* C33: under fair delivery every call of ttsPromise that has started is
\* eventually resolved or rejected.
C33_EveryCallSettles ==
    \A j \in WsJobs : (ws[j].st # "idle") ~> (ws[j].tts # "pending")


\* C34: once a call is rejected, its audio file gets no more data and no
\* subtitle file is written for it.
C34_NoEffectAfterRejection ==
    [][\A j \in WsJobs :
          ws[j].tts = "rejected" =>
              /\ ws'[j].file = ws[j].file
              /\ ws'[j].wasSaved = ws[j].wasSaved
              /\ ws'[j].saved = ws[j].saved]_vars

====
